---- MODULE Spec2Model ----
(***************************************************************************)
(* Session relay (src/src/server.js) and upstream session client           *)
(* (src/src/gemini-live.js) of the Gemini Live voice chat server, and the  *)
(* playback scheduler and sample converter of its browser client           *)
(* (src/public/js/app.js), and its microphone worklet                      *)
(* (src/public/js/audio-processor.js).                                     *)
(*                                                                         *)
(* Relay: one action per event-loop callback.  The `start` branch of the   *)
(* message handler suspends at `await createGeminiConnection(...)`; the    *)
(* part after the await (or the catch block) is the action StartResume.    *)
(* It is a promise continuation, so it runs before the next event-loop     *)
(* callback: every other action is disabled while a continuation is ready. *)
(* Every downstream connection has its own closure (geminiWs,              *)
(* sessionConfig, clientWs): these are indexed by the client.  Spec is the *)
(* relay with one client connected, MultiSpec with MaxClients of them.     *)
(***************************************************************************)
EXTENDS Integers, Sequences, FiniteSets, TLC

\* ------------------------------------------------------------------ bounds
MaxConns == 2           \* upstream connections the relay may create
MaxClients == 2         \* downstream clients connected at once

\* --------------------------------------------------------------- constants
NULL == 0
DEFAULT_VOICE == "Kore"
DEFAULT_PROMPT == "You are a helpful assistant."
TIMEOUT_MESSAGE == "Connection timeout"
AUDIO_MIME == "audio/pcm;rate=16000"
VIDEO_MIME == "image/jpeg"

Conns == 1..MaxConns
Clients == 1..MaxClients

\* inputs: "" stands for an absent (falsy) field
StartMessages == {[voice |-> "", systemPrompt |-> ""],
                  [voice |-> "Puck", systemPrompt |-> "test"]}
ChunkData == {"QUJD", "AAEC"}
ErrorMessages == {"ECONNRESET", "socket hang up"}
PARSE_ERROR == "Unexpected token"

\* provider events, by the fields the message handler looks at; audio is the
\* inlineData of the parts of the model turn, in order ("" = a part without any)
Msg(sc, audio, out, in, tc) ==
    [setupComplete |-> sc, audio |-> audio,
     outputTranscription |-> out, inputTranscription |-> in, turnComplete |-> tc]
ProviderMessages ==
    {Msg(TRUE, <<>>, "", "", FALSE), Msg(TRUE, <<"UklG">>, "", "", FALSE),
     Msg(FALSE, <<"UklG", "", "AAAB">>, "", "", FALSE),
     Msg(FALSE, <<"UklG">>, "hello", "", FALSE),
     Msg(FALSE, <<>>, "", "hi", FALSE), Msg(FALSE, <<>>, "", "", FALSE),
     Msg(FALSE, <<>>, "", "", TRUE)}

VARIABLES
    geminiWs,        \* server.js:53   per client: NULL or the connection whose handle is held
    sessionConfig,   \* server.js:54   per client: NULL or [voice, systemPrompt]
    clientState,     \* clientWs.readyState per client: "OPEN" or "CLOSED" ("NONE" = never connected)
    nextConn,        \* identity of the next WebSocket createGeminiConnection makes
    clientWs,        \* the clientWs the callbacks of each upstream connection close over
    wsState,         \* ws.readyState of each upstream transport ("NONE" = not created)
    connConfig,      \* the config object createGeminiConnection was called with
    isSetupComplete, \* gemini-live.js:18
    promise,         \* the promise of createGeminiConnection: none/pending/resolved/rejected
    rejectReason,    \* message of the error the promise was rejected with
    handler,         \* the start handler that awaits the promise: none/awaiting/done
    timer,           \* gemini-live.js:197 setTimeout: none/armed/fired
    errored,         \* the transport has emitted 'error'
    setupSent,       \* the setup descriptor was sent on the transport
    connected,       \* number of 'connected' statuses delivered downstream, per start
    errorsSent,      \* number of error messages delivered downstream, per start
    disconnected,    \* number of 'disconnected' statuses delivered downstream, per connection
    cancelled,       \* history: starts that were pending when a stop or a disconnect was processed
    messageCalls,    \* the onAudio and onText calls made by the last callback, in order
    effects          \* the calls made by the last callback, in program order

connVars == <<clientWs, wsState, connConfig, isSetupComplete, promise, rejectReason,
              handler, timer, errored, setupSent>>

relayVars == <<nextConn, geminiWs, sessionConfig, clientState, connVars,
               connected, errorsSent, disconnected, cancelled, messageCalls, effects>>

\* the browser client (src/public/js/app.js, class GeminiVoiceChat); times are
\* in sample periods of the 24 kHz playback rate, so that the duration of an
\* audio buffer is its length
VARIABLES
    isActive,        \* app.js:211,510  this.isActive (undefined counts as false)
    browserWs,       \* app.js:30   this.ws: "null" or the readyState of the socket
    starting,        \* startConversation is suspended at its await (app.js:144)
    conversations,   \* number of startConversation calls so far
    audioContext,    \* app.js:31   this.audioContext: "null" or "running"
    currentTime,     \* audioContext.currentTime, 0 for a new context
    nextPlayTime,    \* app.js:38
    isPlaying,       \* app.js:37
    speaking,        \* aiAvatar has the class 'speaking'
    status,          \* the type last given to setStatus
    sources,         \* buffer sources started and not yet ended: [end, old]
    scheduled,       \* the source.start calls on the current context: [start, duration]
    playErrors       \* app.js:467  the chunks the last callback logged an error for

appVars == <<isActive, browserWs, starting, conversations, audioContext, currentTime, nextPlayTime,
             isPlaying, speaking, status, sources, scheduled, playErrors>>

\* the sample converter (app.js:398-421, audio-processor.js:42-65) applied to
\* one block of samples; a float sample is its numerator over 65536
VARIABLES
    convOrig,        \* the block the converter was first given
    convRate,        \* the sample rate of convData, in kHz
    convKind,        \* "float" (Float32Array) or "pcm" (Int16Array)
    convData,        \* the block after the conversions in convChain
    convChain,       \* the conversions applied so far, in order
    convReads        \* the indices of inputData the last resample call read

convVars == <<convOrig, convRate, convKind, convData, convChain, convReads>>

\* the microphone worklet (public/js/audio-processor.js); samples are named by
\* their position in the microphone stream, counted from 1
VARIABLES
    bufferIndex,     \* audio-processor.js:11
    buffer,          \* audio-processor.js:10  the runs of samples stored since it was allocated
    posted,          \* the blocks handed to resample and posted so far, in order
    streamPos        \* number of samples the process calls have been given so far

workletVars == <<bufferIndex, buffer, posted, streamPos>>

browserVars == <<appVars, convVars, workletVars>>

vars == <<relayVars, browserVars>>

\* ----------------------------------------------------------------- helpers
Eff(op, k, c, type, data, aux) ==
    [op |-> op, to |-> k, conn |-> c, type |-> type, data |-> data, aux |-> aux]
NewWs(c) == Eff("new WebSocket", NULL, c, "", "", "")
CloseWs(c) == Eff("ws.close", NULL, c, "", "", "")
Up(c, type, data, aux) == Eff("ws.send", NULL, c, type, data, aux)
Down(k, c, type, data) == Eff("clientWs.send", k, c, type, data, "")

\* a transport counts as live from its creation until it is asked to close
Live(c) == wsState[c] \in {"CONNECTING", "OPEN"}

\* ws.close(): OPEN or CONNECTING becomes CLOSING, otherwise nothing happens
WsCloseCall(ws, c) ==
    IF ws[c] \in {"CONNECTING", "OPEN"} THEN [ws EXCEPT ![c] = "CLOSING"] ELSE ws

\* clientWs.send(...) on the socket of client k: delivered only while it is open
ClientSend(k, c, type, data) ==
    IF clientState[k] = "OPEN" THEN <<Down(k, c, type, data)>> ELSE <<>>

Delivered(k) == IF clientState[k] = "OPEN" THEN 1 ELSE 0

\* a promise continuation is ready to run
Ready(c) == handler[c] = "awaiting" /\ promise[c] \in {"resolved", "rejected"}
NoMicrotask == \A c \in Conns : ~Ready(c)

\* the start handlers of client k suspended at their await
Pending(k) == {c \in Conns : clientWs[c] = k /\ handler[c] = "awaiting"}

HandleOfFirstClient(k) == geminiWs[1]
\* server.js:50-53  geminiWs is a variable of the connection callback: every
\* handler of client k reads the geminiWs of k's own closure
Handle(k) == geminiWs[k]

\* app.js:27-38  the constructor
AppInit ==
    /\ isActive = FALSE
    /\ browserWs = "null"
    /\ starting = FALSE
    /\ conversations = 0
    /\ audioContext = "null"
    /\ currentTime = 0
    /\ nextPlayTime = 0
    /\ isPlaying = FALSE
    /\ speaking = FALSE
    /\ status = ""
    /\ sources = {}
    /\ scheduled = <<>>
    /\ playErrors = <<>>

\* no block has been given to the converter
ConvIdle ==
    /\ convOrig = <<>>
    /\ convRate = 16
    /\ convKind = "float"
    /\ convData = <<>>
    /\ convChain = <<>>
    /\ convReads = {}

\* audio-processor.js:7-12  constructor
AudioProcessorInit ==
    /\ bufferIndex = 0
    /\ buffer = <<>>
    /\ posted = <<>>
    /\ streamPos = 0

RelayInit ==
    /\ geminiWs = [k \in Clients |-> NULL]
    /\ sessionConfig = [k \in Clients |-> NULL]
    /\ nextConn = 1
    /\ clientWs = [c \in Conns |-> NULL]
    /\ wsState = [c \in Conns |-> "NONE"]
    /\ connConfig = [c \in Conns |-> NULL]
    /\ isSetupComplete = [c \in Conns |-> FALSE]
    /\ promise = [c \in Conns |-> "none"]
    /\ rejectReason = [c \in Conns |-> ""]
    /\ handler = [c \in Conns |-> "none"]
    /\ timer = [c \in Conns |-> "none"]
    /\ errored = [c \in Conns |-> FALSE]
    /\ setupSent = [c \in Conns |-> FALSE]
    /\ connected = [c \in Conns |-> 0]
    /\ errorsSent = [c \in Conns |-> 0]
    /\ disconnected = [c \in Conns |-> 0]
    /\ cancelled = {}
    /\ messageCalls = <<>>
    /\ effects = <<>>

\* one downstream client has connected (server.js:50-54); its page is loaded
Init ==
    /\ RelayInit
    /\ clientState = [k \in Clients |-> IF k = 1 THEN "OPEN" ELSE "NONE"]
    /\ AppInit
    /\ AudioProcessorInit
    /\ ConvIdle

\* MaxClients downstream clients have connected
MultiInit ==
    /\ RelayInit
    /\ clientState = [k \in Clients |-> "OPEN"]
    /\ AppInit
    /\ AudioProcessorInit
    /\ ConvIdle

\* ------------------------------------------- downstream message handler
\* server.js:62-65  message.voice || DEFAULT_VOICE, message.systemPrompt || '...'
MakeSessionConfig(voice, systemPrompt) ==
    [voice |-> IF voice = "" THEN DEFAULT_VOICE ELSE voice,
     systemPrompt |-> IF systemPrompt = "" THEN DEFAULT_PROMPT ELSE systemPrompt]

StartKeepExisting(ws, g) == ws
\* server.js:70-72  close the existing connection, if any
StartCloseExisting(ws, g) == IF g # NULL THEN WsCloseCall(ws, g) ELSE ws

\* {type:'start'} from client k: the handler up to its await
ClientStart(k, voice, systemPrompt) ==
    /\ clientState[k] = "OPEN"
    /\ NoMicrotask
    /\ nextConn <= MaxConns
    /\ LET c == nextConn
           cfg == MakeSessionConfig(voice, systemPrompt)
       IN /\ sessionConfig' = [sessionConfig EXCEPT ![k] = cfg]
          /\ wsState' = [StartCloseExisting(wsState, Handle(k)) EXCEPT ![c] = "CONNECTING"]
          /\ clientWs' = [clientWs EXCEPT ![c] = k]
          /\ connConfig' = [connConfig EXCEPT ![c] = cfg]
          /\ promise' = [promise EXCEPT ![c] = "pending"]
          /\ handler' = [handler EXCEPT ![c] = "awaiting"]
          /\ timer' = [timer EXCEPT ![c] = "armed"]
          /\ nextConn' = c + 1
          /\ effects' = (IF Handle(k) # NULL THEN <<CloseWs(Handle(k))>> ELSE <<>>)
                        \o <<NewWs(c)>>
    /\ UNCHANGED <<geminiWs, clientState, isSetupComplete, rejectReason, errored,
                   setupSent, connected, errorsSent, disconnected, cancelled>>
    /\ messageCalls' = <<>>
    /\ UNCHANGED browserVars

HandleSendAlways(g, mime, data) == <<Up(g, mime, data, "")>>
HandleSendTwice(g, mime, data) ==
    IF wsState[g] = "OPEN" THEN <<Up(g, mime, data, ""), Up(g, mime, data, "")>> ELSE <<>>
\* gemini-live.js:69-94  the body sendAudio and sendVideo share: one message
\* with one media chunk, only if ws.readyState === WebSocket.OPEN
HandleSend(g, mime, data) ==
    IF wsState[g] = "OPEN" THEN <<Up(g, mime, data, "")>> ELSE <<>>

\* gemini-live.js:69-81
SendAudio(g, audioData) == HandleSend(g, AUDIO_MIME, audioData)

SendVideoAsAudio(g, videoData) == HandleSend(g, AUDIO_MIME, videoData)
\* gemini-live.js:82-94
SendVideo(g, videoData) == HandleSend(g, VIDEO_MIME, videoData)

\* {type:'audio'} and {type:'video'} from client k; kind is message.type
ClientMedia(k, kind, data) ==
    /\ clientState[k] = "OPEN"
    /\ NoMicrotask
    /\ effects' = IF Handle(k) = NULL THEN <<>>
                  ELSE IF kind = "audio" THEN SendAudio(Handle(k), data)
                  ELSE SendVideo(Handle(k), data)
    /\ UNCHANGED <<geminiWs, sessionConfig, clientState, nextConn, connVars,
                   connected, errorsSent, disconnected, cancelled>>
    /\ messageCalls' = <<>>
    /\ UNCHANGED browserVars

ClientStopKeepOpen(k) ==
    /\ clientState[k] = "OPEN"
    /\ NoMicrotask
    /\ geminiWs' = [geminiWs EXCEPT ![k] = NULL]
    /\ cancelled' = cancelled \cup Pending(k)
    /\ effects' = (IF Handle(k) # NULL THEN <<CloseWs(Handle(k))>> ELSE <<>>)
                  \o ClientSend(k, NULL, "status", "stopped")
    /\ UNCHANGED <<sessionConfig, clientState, nextConn, connVars,
                   connected, errorsSent, disconnected>>
    /\ messageCalls' = <<>>
    /\ UNCHANGED browserVars
\* {type:'stop'} from client k
ClientStop(k) ==
    /\ clientState[k] = "OPEN"
    /\ NoMicrotask
    /\ wsState' = IF Handle(k) # NULL THEN WsCloseCall(wsState, Handle(k)) ELSE wsState
    /\ geminiWs' = [geminiWs EXCEPT ![k] = NULL]
    /\ cancelled' = cancelled \cup Pending(k)
    /\ effects' = (IF Handle(k) # NULL THEN <<CloseWs(Handle(k))>> ELSE <<>>)
                  \o ClientSend(k, NULL, "status", "stopped")
    /\ UNCHANGED <<sessionConfig, clientState, nextConn, clientWs, connConfig,
                   isSetupComplete, promise, rejectReason, handler, timer, errored,
                   setupSent, connected, errorsSent, disconnected>>
    /\ messageCalls' = <<>>
    /\ UNCHANGED browserVars

ClientMalformedResets(k) ==
    /\ clientState[k] = "OPEN"
    /\ NoMicrotask
    /\ geminiWs' = [geminiWs EXCEPT ![k] = NULL]
    /\ effects' = ClientSend(k, NULL, "error", PARSE_ERROR)
    /\ UNCHANGED <<sessionConfig, clientState, nextConn, connVars,
                   connected, errorsSent, disconnected, cancelled>>
    /\ messageCalls' = <<>>
    /\ UNCHANGED browserVars
\* a message from client k that JSON.parse rejects (or the JSON literal null):
\* the catch block
ClientMalformed(k) ==
    /\ clientState[k] = "OPEN"
    /\ NoMicrotask
    /\ effects' = ClientSend(k, NULL, "error", PARSE_ERROR)
    /\ UNCHANGED <<geminiWs, sessionConfig, clientState, nextConn, connVars,
                   connected, errorsSent, disconnected, cancelled>>
    /\ messageCalls' = <<>>
    /\ UNCHANGED browserVars

\* clientWs.on('close') of client k
ClientClose(k) ==
    /\ clientState[k] = "OPEN"
    /\ NoMicrotask
    /\ clientState' = [clientState EXCEPT ![k] = "CLOSED"]
    /\ wsState' = IF Handle(k) # NULL THEN WsCloseCall(wsState, Handle(k)) ELSE wsState
    /\ cancelled' = cancelled \cup Pending(k)
    /\ effects' = IF Handle(k) # NULL THEN <<CloseWs(Handle(k))>> ELSE <<>>
    /\ UNCHANGED <<geminiWs, sessionConfig, nextConn, clientWs, connConfig,
                   isSetupComplete, promise, rejectReason, handler, timer, errored,
                   setupSent, connected, errorsSent, disconnected>>
    /\ messageCalls' = <<>>
    /\ UNCHANGED browserVars

\* -------------------------------------------------- upstream session client
SetupFromSessionConfig(c) ==
    Up(c, "setup", sessionConfig[clientWs[c]].voice, sessionConfig[clientWs[c]].systemPrompt)
\* gemini-live.js:24-55  the setup descriptor: voiceName and systemInstruction
\* come from the config createGeminiConnection was called with
SetupMessage(c) == Up(c, "setup", connConfig[c].voice, connConfig[c].systemPrompt)

OpenSendsSetupTwice(c) == <<SetupMessage(c), SetupMessage(c)>>
\* gemini-live.js:57  the open handler sends the setup descriptor
OpenSends(c) == <<SetupMessage(c)>>

\* gemini-live.js:20-58  ws.on('open')
WsOpen(c) ==
    /\ NoMicrotask
    /\ wsState[c] = "CONNECTING"
    /\ wsState' = [wsState EXCEPT ![c] = "OPEN"]
    /\ setupSent' = [setupSent EXCEPT ![c] = TRUE]
    /\ effects' = OpenSends(c)
    /\ UNCHANGED <<geminiWs, sessionConfig, clientState, nextConn, clientWs, connConfig,
                   isSetupComplete, promise, rejectReason, handler, timer, errored,
                   connected, errorsSent, disconnected, cancelled>>
    /\ messageCalls' = <<>>
    /\ UNCHANGED browserVars

ResolveOnAnyMessage(p, m) == IF p = "pending" THEN "resolved" ELSE p
\* gemini-live.js:65-99  resolve(handle) settles the promise only if it is pending
ResolveOnSetupComplete(p, m) ==
    IF m.setupComplete /\ p = "pending" THEN "resolved" ELSE p

\* server.js:79-86  the audio callback of connection c
OnAudio(c, audioData) == ClientSend(clientWs[c], c, "audio", audioData)

\* server.js:88-95  the text callback of connection c: it takes one parameter,
\* so the source that gemini-live.js passes is not relayed
OnText(c, text, source) == ClientSend(clientWs[c], c, "text", text)

RECURSIVE PartsAudio(_, _)
\* gemini-live.js:109-115  for (const part of parts) if (part.inlineData) onAudio(...)
PartsAudio(c, parts) ==
    IF parts = <<>> THEN <<>>
    ELSE (IF Head(parts) # "" THEN OnAudio(c, Head(parts)) ELSE <<>>)
         \o PartsAudio(c, Tail(parts))

MessageAudioFirstOnly(c, m) ==
    IF PartsAudio(c, m.audio) = <<>> THEN <<>> ELSE <<Head(PartsAudio(c, m.audio))>>
MessageAudioReversed(c, m) ==
    LET s == PartsAudio(c, m.audio) IN [i \in 1..Len(s) |-> s[Len(s) + 1 - i]]
\* gemini-live.js:103-116  onAudio for the inline data of the model turn
MessageAudioEffects(c, m) == PartsAudio(c, m.audio)

\* a call of one of the callbacks given to createGeminiConnection
Call(cb, text, source) == [cb |-> cb, text |-> text, source |-> source]

\* gemini-live.js:109-115  the onAudio(part.inlineData.data) calls of one
\* message, in order
AudioCalls(m) ==
    LET inline == SelectSeq(m.audio, LAMBDA part : part # "")
    IN [i \in 1..Len(inline) |-> Call("onAudio", inline[i], "")]

TextCall(text, source) == Call("onText", text, source)

TextCallsAllAi(m) ==
    (IF m.outputTranscription # "" THEN <<TextCall(m.outputTranscription, "ai")>> ELSE <<>>)
    \o (IF m.outputTranscription # "" THEN <<TextCall(m.outputTranscription, "ai")>> ELSE <<>>)
    \o (IF m.inputTranscription # "" THEN <<TextCall(m.inputTranscription, "ai")>> ELSE <<>>)
\* gemini-live.js:120-122 and 157-169  the onText(text, source) calls of one
\* message, in order; a turnComplete field causes none
TextCalls(m) ==
    (IF m.outputTranscription # "" THEN <<TextCall(m.outputTranscription, "ai")>> ELSE <<>>)
    \o (IF m.outputTranscription # "" THEN <<TextCall(m.outputTranscription, "ai")>> ELSE <<>>)
    \o (IF m.inputTranscription # "" THEN <<TextCall(m.inputTranscription, "user")>> ELSE <<>>)

RECURSIVE TextEffects(_, _)
\* what the text callback of connection c does for a sequence of calls
TextEffects(c, calls) ==
    IF calls = <<>> THEN <<>>
    ELSE OnText(c, Head(calls).text, Head(calls).source) \o TextEffects(c, Tail(calls))

\* gemini-live.js:118-169  onText calls
MessageTextEffects(c, m) == TextEffects(c, TextCalls(m))

\* gemini-live.js:60-181  ws.on('message'); frames still arrive after a local
\* ws.close() until the closing handshake ends
WsMessage(c, m) ==
    /\ NoMicrotask
    /\ wsState[c] \in {"OPEN", "CLOSING"}
    /\ setupSent[c]
    /\ ~errored[c]
    /\ isSetupComplete' = [isSetupComplete EXCEPT ![c] = @ \/ m.setupComplete]
    /\ promise' = [promise EXCEPT ![c] = ResolveOnSetupComplete(@, m)]
    /\ messageCalls' = AudioCalls(m) \o TextCalls(m)
    /\ effects' = MessageAudioEffects(c, m) \o MessageTextEffects(c, m)
    /\ UNCHANGED <<geminiWs, sessionConfig, clientState, nextConn, clientWs, wsState,
                   connConfig, rejectReason, handler, timer, errored, setupSent,
                   connected, errorsSent, disconnected, cancelled>>
    /\ UNCHANGED browserVars

RejectAlways(p, done) == IF p \in {"pending", "resolved"} THEN "rejected" ELSE p
\* gemini-live.js:186-188  if (!isSetupComplete) reject(error)
RejectUnlessSetupComplete(p, done) ==
    IF ~done /\ p = "pending" THEN "rejected" ELSE p

\* gemini-live.js:183-189  ws.on('error'); the library emits 'error' at most once
\* and has left the OPEN state when it does
WsError(c, e) ==
    /\ NoMicrotask
    /\ wsState[c] \in {"CONNECTING", "OPEN", "CLOSING"}
    /\ ~errored[c]
    /\ errored' = [errored EXCEPT ![c] = TRUE]
    /\ wsState' = [wsState EXCEPT ![c] = "CLOSING"]
    /\ errorsSent' = [errorsSent EXCEPT ![c] = @ + Delivered(clientWs[c])]
    /\ promise' = [promise EXCEPT ![c] = RejectUnlessSetupComplete(@, isSetupComplete[c])]
    /\ rejectReason' = [rejectReason EXCEPT ![c] =
            IF promise'[c] = "rejected" /\ promise[c] = "pending" THEN e ELSE @]
    /\ effects' = ClientSend(clientWs[c], c, "error", e)
    /\ UNCHANGED <<geminiWs, sessionConfig, clientState, nextConn, clientWs, connConfig,
                   isSetupComplete, handler, timer, setupSent,
                   connected, disconnected, cancelled>>
    /\ messageCalls' = <<>>
    /\ UNCHANGED browserVars

WsCloseSilent(c) ==
    /\ NoMicrotask
    /\ \/ wsState[c] = "OPEN"
       \/ wsState[c] = "CLOSING" /\ (setupSent[c] \/ errored[c])
    /\ wsState' = [wsState EXCEPT ![c] = "CLOSED"]
    /\ effects' = <<>>
    /\ UNCHANGED <<geminiWs, sessionConfig, clientState, nextConn, clientWs, connConfig,
                   isSetupComplete, promise, rejectReason, handler, timer, errored,
                   setupSent, connected, errorsSent, disconnected, cancelled>>
    /\ messageCalls' = <<>>
    /\ UNCHANGED browserVars
\* gemini-live.js:191-194  ws.on('close'): the peer closed an open transport, or
\* a closing one is done; a transport that never opened reports 'error' first
WsClose(c) ==
    /\ NoMicrotask
    /\ \/ wsState[c] = "OPEN"
       \/ wsState[c] = "CLOSING" /\ (setupSent[c] \/ errored[c])
    /\ wsState' = [wsState EXCEPT ![c] = "CLOSED"]
    /\ disconnected' = [disconnected EXCEPT ![c] = @ + Delivered(clientWs[c])]
    /\ effects' = ClientSend(clientWs[c], c, "status", "disconnected")
    /\ UNCHANGED <<geminiWs, sessionConfig, clientState, nextConn, clientWs, connConfig,
                   isSetupComplete, promise, rejectReason, handler, timer, errored,
                   setupSent, connected, errorsSent, cancelled>>
    /\ messageCalls' = <<>>
    /\ UNCHANGED browserVars

TimeoutKeepOpen(ws, c) == ws
\* gemini-live.js:198-199  if (!isSetupComplete) ws.close()
TimeoutClose(ws, c) == IF ~isSetupComplete[c] THEN WsCloseCall(ws, c) ELSE ws

TimeoutKeepPending(p, done) == p
\* gemini-live.js:198-200  if (!isSetupComplete) reject(new Error('Connection timeout'))
TimeoutReject(p, done) == IF ~done /\ p = "pending" THEN "rejected" ELSE p

\* gemini-live.js:197-202  the 10 s timer; timers of equal delay fire in the
\* order they were set
Timeout(c) ==
    /\ NoMicrotask
    /\ timer[c] = "armed"
    /\ \A d \in Conns : d < c => timer[d] = "fired"
    /\ timer' = [timer EXCEPT ![c] = "fired"]
    /\ wsState' = TimeoutClose(wsState, c)
    /\ promise' = [promise EXCEPT ![c] = TimeoutReject(@, isSetupComplete[c])]
    /\ rejectReason' = [rejectReason EXCEPT ![c] =
            IF promise'[c] = "rejected" /\ promise[c] = "pending" THEN TIMEOUT_MESSAGE ELSE @]
    /\ effects' = IF ~isSetupComplete[c] THEN <<CloseWs(c)>> ELSE <<>>
    /\ UNCHANGED <<geminiWs, sessionConfig, clientState, nextConn, clientWs, connConfig,
                   isSetupComplete, handler, errored, setupSent,
                   connected, errorsSent, disconnected, cancelled>>
    /\ messageCalls' = <<>>
    /\ UNCHANGED browserVars

\* server.js:75,118-121 (the await returned the handle) and 146-152 (it threw),
\* in the handler of the client that sent the start
StartResume(c) ==
    /\ Ready(c)
    /\ handler' = [handler EXCEPT ![c] = "done"]
    /\ IF promise[c] = "resolved"
       THEN /\ geminiWs' = [geminiWs EXCEPT ![clientWs[c]] = c]
            /\ connected' = [connected EXCEPT ![c] = @ + Delivered(clientWs[c])]
            /\ effects' = ClientSend(clientWs[c], c, "status", "connected")
            /\ UNCHANGED errorsSent
       ELSE /\ errorsSent' = [errorsSent EXCEPT ![c] = @ + Delivered(clientWs[c])]
            /\ effects' = ClientSend(clientWs[c], c, "error", rejectReason[c])
            /\ UNCHANGED <<geminiWs, connected>>
    /\ UNCHANGED <<sessionConfig, clientState, nextConn, clientWs, wsState, connConfig,
                   isSetupComplete, promise, rejectReason, timer, errored, setupSent,
                   disconnected, cancelled>>
    /\ messageCalls' = <<>>
    /\ UNCHANGED browserVars

Next ==
    \/ \E k \in Clients, m \in StartMessages : ClientStart(k, m.voice, m.systemPrompt)
    \/ \E k \in Clients, d \in ChunkData : ClientMedia(k, "audio", d)
    \/ \E k \in Clients, d \in ChunkData : ClientMedia(k, "video", d)
    \/ \E k \in Clients : ClientStop(k)
    \/ \E k \in Clients : ClientMalformed(k)
    \/ \E k \in Clients : ClientClose(k)
    \/ \E c \in Conns : WsOpen(c)
    \/ \E c \in Conns, m \in ProviderMessages : WsMessage(c, m)
    \/ \E c \in Conns, e \in ErrorMessages : WsError(c, e)
    \/ \E c \in Conns : WsClose(c)
    \/ \E c \in Conns : Timeout(c)
    \/ \E c \in Conns : StartResume(c)

Spec == Init /\ [][Next]_vars

\* the event loop runs ready continuations and due timers
FairSpec ==
    /\ Spec
    /\ \A c \in Conns : WF_vars(Timeout(c))
    /\ \A c \in Conns : WF_vars(StartResume(c))

\* the inputs of the run with several clients: one of each kind
MultiStartMessages == {[voice |-> "Puck", systemPrompt |-> "test"]}
MultiChunkData == {"QUJD"}
MultiErrorMessages == {"ECONNRESET"}
MultiProviderMessages ==
    {Msg(TRUE, <<>>, "", "", FALSE), Msg(FALSE, <<"UklG">>, "hello", "", FALSE)}

MultiNext ==
    \/ \E k \in Clients, m \in MultiStartMessages : ClientStart(k, m.voice, m.systemPrompt)
    \/ \E k \in Clients, d \in MultiChunkData : ClientMedia(k, "audio", d)
    \/ \E k \in Clients, d \in MultiChunkData : ClientMedia(k, "video", d)
    \/ \E k \in Clients : ClientStop(k)
    \/ \E k \in Clients : ClientMalformed(k)
    \/ \E k \in Clients : ClientClose(k)
    \/ \E c \in Conns : WsOpen(c)
    \/ \E c \in Conns, m \in MultiProviderMessages : WsMessage(c, m)
    \/ \E c \in Conns, e \in MultiErrorMessages : WsError(c, e)
    \/ \E c \in Conns : WsClose(c)
    \/ \E c \in Conns : Timeout(c)
    \/ \E c \in Conns : StartResume(c)

\* the relay with MaxClients clients connected
MultiSpec == MultiInit /\ [][MultiNext]_vars

TypeOK ==
    /\ nextConn \in 1..(MaxConns + 1)
    /\ \A k \in Clients :
         /\ geminiWs[k] \in {NULL} \cup Conns
         /\ clientState[k] \in {"NONE", "OPEN", "CLOSED"}
    /\ \A c \in Conns :
         /\ clientWs[c] \in {NULL} \cup Clients
         /\ wsState[c] \in {"NONE", "CONNECTING", "OPEN", "CLOSING", "CLOSED"}
         /\ promise[c] \in {"none", "pending", "resolved", "rejected"}
         /\ handler[c] \in {"none", "awaiting", "done"}
         /\ timer[c] \in {"none", "armed", "fired"}
         /\ connected[c] \in 0..1
         /\ errorsSent[c] \in 0..2
         /\ disconnected[c] \in 0..1

\* ------------------------------------------------ browser client (app.js)
MaxConversations == 2   \* conversations started on one page
MaxTicks == 4           \* the playback clock of one context runs for MaxTicks * 0.05 s
MaxChunks == 3          \* buffers scheduled on one audio context

TOLERANCE == 2400       \* app.js:492  0.1 s at 24 kHz

\* how far the playback clock moves between two callbacks: 0.05 s, 0.15 s
ClockSteps == {1200, 3600}

\* {type:'audio'} payloads: whether atob accepts the text, and the bytes it
\* decodes to (0.1 s, 0.2 s and 0.15 s of 16-bit samples, an odd number of
\* bytes, nothing)
Chunk(ok, n) == [base64 |-> ok, bytes |-> n]
AudioChunks ==
    {Chunk(FALSE, 0), Chunk(TRUE, 0), Chunk(TRUE, 4801),
     Chunk(TRUE, 4800), Chunk(TRUE, 9600), Chunk(TRUE, 7200)}

\* messages of the relay, by the fields handleMessage looks at
ServerMessages ==
    {[type |-> "status", status |-> s, data |-> Chunk(TRUE, 0)] :
        s \in {"connected", "disconnected", "stopped"}}
    \cup {[type |-> "audio", status |-> "", data |-> ch] : ch \in AudioChunks}
    \cup {[type |-> t, status |-> "", data |-> Chunk(TRUE, 0)] : t \in {"text", "error"}}

\* a context that is closed or replaced: its sources may still report their end
Orphaned(srcs) == IF srcs = {} THEN {} ELSE {[end |-> 0, old |-> TRUE]}

\* app.js:432-439  atob throws on text that is not base64
AtobThrows(chunk) == ~chunk.base64

\* app.js:452  new Int16Array(buffer) throws on an odd byte length
Int16Throws(chunk) == chunk.bytes % 2 # 0

CreateBufferAcceptsEmpty(length) == FALSE
\* app.js:460  createBuffer(1, length, 24000) throws NotSupportedError when
\* length is 0
CreateBufferThrows(length) == length = 0

DecodeNeverFails(chunk) == FALSE
\* app.js:447-468  the try block of playAudio throws before it schedules
DecodeFails(chunk) ==
    \/ AtobThrows(chunk)
    \/ Int16Throws(chunk)
    \/ audioContext = "null"
    \/ CreateBufferThrows(chunk.bytes \div 2)

ScheduleStartNoCatchUp(npt, now) == npt
ScheduleStartAlwaysNow(npt, now) == now
\* app.js:476-482  the time the source is started at
ScheduleStart(npt, now) == IF npt = 0 \/ npt < now THEN now ELSE npt

\* app.js:441-501  playAudio and scheduleAudioBuffer
PlayAudio(chunk) ==
    /\ speaking' = TRUE
    /\ status' = "speaking"
    /\ IF DecodeFails(chunk)
       THEN /\ playErrors' = <<chunk>>
            /\ UNCHANGED <<nextPlayTime, isPlaying, sources, scheduled>>
       ELSE LET length == chunk.bytes \div 2
                start == ScheduleStart(nextPlayTime, currentTime)
            IN /\ scheduled' = Append(scheduled, [start |-> start, duration |-> length])
               /\ nextPlayTime' = start + length
               /\ isPlaying' = TRUE
               /\ sources' = sources \cup {[end |-> start + length, old |-> FALSE]}
               /\ playErrors' = <<>>
    /\ UNCHANGED <<isActive, browserWs, starting, conversations, audioContext, currentTime>>

StopKeepsCursor(npt) == npt
\* app.js:542
StopCursor(npt) == 0

\* app.js:509-543  stopConversation; ws.send throws while the socket is
\* connecting, which ends the function there
StopConversation ==
    /\ isActive' = FALSE
    /\ status' = ""
    /\ speaking' = FALSE
    /\ IF browserWs = "CONNECTING"
       THEN UNCHANGED <<browserWs, audioContext, currentTime, nextPlayTime, isPlaying,
                        sources, scheduled>>
       ELSE /\ browserWs' = "null"
            /\ audioContext' = "null"
            /\ currentTime' = 0
            /\ sources' = Orphaned(sources)
            /\ isPlaying' = FALSE
            /\ nextPlayTime' = StopCursor(nextPlayTime)
            /\ UNCHANGED scheduled
    /\ UNCHANGED <<starting, conversations>>

\* app.js:126-151  the talk button while no conversation is active and no
\* socket is connecting or open: startConversation up to its await
ToggleStart ==
    /\ ~isActive
    /\ ~starting
    /\ browserWs \in {"null", "CLOSED"}
    /\ conversations < MaxConversations
    /\ conversations' = conversations + 1
    /\ starting' = TRUE
    /\ status' = ""
    /\ audioContext' = "running"
    /\ currentTime' = 0
    /\ sources' = Orphaned(sources)
    /\ scheduled' = <<>>
    /\ UNCHANGED <<isActive, browserWs, nextPlayTime, isPlaying, speaking>>
    /\ playErrors' = <<>>
    /\ UNCHANGED <<relayVars, convVars, workletVars>>

\* app.js:153-178  getUserMedia resolved: the socket is created
MediaGranted ==
    /\ starting
    /\ starting' = FALSE
    /\ browserWs' = "CONNECTING"
    /\ UNCHANGED <<isActive, conversations, audioContext, currentTime, nextPlayTime, isPlaying,
                   speaking, status, sources, scheduled>>
    /\ playErrors' = <<>>
    /\ UNCHANGED <<relayVars, convVars, workletVars>>

\* app.js:180-183  getUserMedia rejected: the catch block
MediaDenied ==
    /\ starting
    /\ starting' = FALSE
    /\ status' = "error"
    /\ UNCHANGED <<isActive, browserWs, conversations, audioContext, currentTime, nextPlayTime, isPlaying,
                   speaking, sources, scheduled>>
    /\ playErrors' = <<>>
    /\ UNCHANGED <<relayVars, convVars, workletVars>>

\* app.js:126-128  the talk button while a conversation is active
ToggleStop ==
    /\ isActive
    /\ StopConversation
    /\ playErrors' = <<>>
    /\ UNCHANGED <<relayVars, convVars, workletVars>>

\* app.js:157-164  ws.onopen
SocketOpen ==
    /\ browserWs = "CONNECTING"
    /\ browserWs' = "OPEN"
    /\ UNCHANGED <<isActive, starting, conversations, audioContext, currentTime, nextPlayTime,
                   isPlaying, speaking, status, sources, scheduled>>
    /\ playErrors' = <<>>
    /\ UNCHANGED <<relayVars, convVars, workletVars>>

\* app.js:166,186-208  ws.onmessage -> handleMessage
Receive(message) ==
    /\ browserWs = "OPEN"
    /\ (message.type = "audio" /\ ~DecodeFails(message.data)) => Len(scheduled) < MaxChunks
    /\ IF message.type = "status" /\ message.status = "connected"
       THEN /\ isActive' = TRUE
            /\ status' = "connected"
            /\ UNCHANGED <<browserWs, starting, conversations, audioContext, currentTime, nextPlayTime,
                           isPlaying, speaking, sources, scheduled>>
            /\ playErrors' = <<>>
       ELSE IF message.type = "status"
       THEN StopConversation /\ playErrors' = <<>>
       ELSE IF message.type = "audio"
       THEN PlayAudio(message.data)
       ELSE IF message.type = "error"
       THEN /\ status' = "error"
            /\ UNCHANGED <<isActive, browserWs, starting, conversations, audioContext, currentTime,
                           nextPlayTime, isPlaying, speaking, sources, scheduled>>
            /\ playErrors' = <<>>
       ELSE UNCHANGED <<isActive, browserWs, starting, conversations, audioContext,
                        currentTime, nextPlayTime, isPlaying, speaking, status, sources,
                        scheduled>>
            /\ playErrors' = <<>>
    /\ UNCHANGED <<relayVars, convVars, workletVars>>

\* app.js:168-171  ws.onerror
SocketError ==
    /\ browserWs \in {"CONNECTING", "OPEN"}
    /\ status' = "error"
    /\ UNCHANGED <<isActive, browserWs, starting, conversations, audioContext, currentTime, nextPlayTime,
                   isPlaying, speaking, sources, scheduled>>
    /\ playErrors' = <<>>
    /\ UNCHANGED <<relayVars, convVars, workletVars>>

\* app.js:173-178  ws.onclose
SocketClose ==
    /\ browserWs \in {"CONNECTING", "OPEN"}
    /\ IF isActive
       THEN /\ isActive' = FALSE
            /\ status' = ""
            /\ speaking' = FALSE
            /\ browserWs' = "null"
            /\ audioContext' = "null"
            /\ currentTime' = 0
            /\ sources' = Orphaned(sources)
            /\ isPlaying' = FALSE
            /\ nextPlayTime' = StopCursor(nextPlayTime)
            /\ UNCHANGED <<starting, conversations, scheduled>>
       ELSE /\ browserWs' = "CLOSED"
            /\ UNCHANGED <<isActive, starting, conversations, audioContext, currentTime, nextPlayTime,
                           isPlaying, speaking, status, sources, scheduled>>
    /\ playErrors' = <<>>
    /\ UNCHANGED <<relayVars, convVars, workletVars>>

\* the playback clock of the running context advances
Advance(dt) ==
    /\ audioContext = "running"
    /\ currentTime + dt <= MaxTicks * 1200
    /\ currentTime' = currentTime + dt
    /\ UNCHANGED <<isActive, browserWs, starting, conversations, audioContext, nextPlayTime, isPlaying,
                   speaking, status, sources, scheduled>>
    /\ playErrors' = <<>>
    /\ UNCHANGED <<relayVars, convVars, workletVars>>

\* app.js:490-500  source.onended: a source of the running context has played
\* to its end, or a source of an earlier context reports its end
SourceEnded(s) ==
    /\ s \in sources
    /\ s.old \/ (audioContext = "running" /\ currentTime >= s.end)
    /\ sources' = sources \ {s}
    /\ IF audioContext # "null" /\ currentTime >= nextPlayTime - TOLERANCE
       THEN /\ isPlaying' = FALSE
            /\ speaking' = FALSE
            /\ status' = IF isActive THEN "connected" ELSE status
       ELSE UNCHANGED <<isPlaying, speaking, status>>
    /\ UNCHANGED <<isActive, browserWs, starting, conversations, audioContext, currentTime, nextPlayTime,
                   scheduled>>
    /\ playErrors' = <<>>
    /\ UNCHANGED <<relayVars, convVars, workletVars>>

PlaybackNext ==
    \/ ToggleStart
    \/ MediaGranted
    \/ MediaDenied
    \/ ToggleStop
    \/ SocketOpen
    \/ \E message \in ServerMessages : Receive(message)
    \/ SocketError
    \/ SocketClose
    \/ \E dt \in ClockSteps : Advance(dt)
    \/ \E s \in sources : SourceEnded(s)

\* the page of one client: conversations, audio arriving, the clock running
PlaybackSpec == Init /\ [][PlaybackNext]_vars


\* the playback clock of a running context keeps running, and every source
\* that has played to its end (or whose context was closed) reports it
PlaybackFairSpec ==
    /\ PlaybackSpec
    /\ WF_vars(\E dt \in ClockSteps : Advance(dt))
    /\ WF_vars(\E s \in sources : SourceEnded(s))

\* ----------------------------------- sample converter (app.js:398-421)
MaxLen == 2             \* samples in the block given to the converter
MaxOps == 3             \* conversions applied to one block

\* the float 1.0 as a numerator: a float sample x is the integer x * 65536
ONE == 65536

\* -1.5, -1, just inside -1, -2^-16, 0, just under 0.5, 1 - 2^-16, 1, 1.5
Samples == {-98304, -65536, -65535, -1, 0, 32767, 65535, 65536, 98304}
Blocks == UNION {[1..n -> Samples] : n \in 0..MaxLen}

\* sample rates in kHz: app.js:379 (16), app.js:140 (24), and the rate of a
\* default audio context (48)
ConvRates == {16, 24, 48}

Min(a, b) == IF a < b THEN a ELSE b
Max(a, b) == IF a > b THEN a ELSE b

OutputLengthTruncated(length, inputSampleRate, outputSampleRate) ==
    (length * outputSampleRate) \div inputSampleRate
\* app.js:399-400  Math.round(inputData.length / ratio), ratio = in / out;
\* Math.round rounds a half up
OutputLength(length, inputSampleRate, outputSampleRate) ==
    (2 * length * outputSampleRate + inputSampleRate) \div (2 * inputSampleRate)

\* app.js:404-405  Math.floor(i * ratio)
SrcIndexFloor(i, inputSampleRate, outputSampleRate) ==
    (i * inputSampleRate) \div outputSampleRate

\* app.js:406  Math.min(srcIndexFloor + 1, inputData.length - 1)
SrcIndexCeil(srcIndexFloor, length) == Min(srcIndexFloor + 1, length - 1)

InterpolateSwapped(a, b, tn, td) == (2 * (a * tn + b * (td - tn)) + td) \div (2 * td)
\* app.js:407-408  a * (1 - t) + b * t with t = tn / td, stored in a
\* Float32Array: rounded to the nearest sample value
Interpolate(a, b, tn, td) == (2 * (a * (td - tn) + b * tn) + td) \div (2 * td)

\* app.js:398-412  resample; the arrays of the code count from 0
Resample(inputData, inputSampleRate, outputSampleRate) ==
    [i \in 1..OutputLength(Len(inputData), inputSampleRate, outputSampleRate) |->
        LET srcIndexFloor == SrcIndexFloor(i - 1, inputSampleRate, outputSampleRate)
            srcIndexCeil == SrcIndexCeil(srcIndexFloor, Len(inputData))
            tn == ((i - 1) * inputSampleRate) % outputSampleRate
        IN Interpolate(inputData[srcIndexFloor + 1], inputData[srcIndexCeil + 1],
                       tn, outputSampleRate)]

\* app.js:403-408  the indices of inputData the loop of resample reads
SrcIndices(length, inputSampleRate, outputSampleRate) ==
    UNION {{SrcIndexFloor(i, inputSampleRate, outputSampleRate),
            SrcIndexCeil(SrcIndexFloor(i, inputSampleRate, outputSampleRate), length)} :
           i \in 0..(OutputLength(length, inputSampleRate, outputSampleRate) - 1)}

ClampBelowOne(x) == Max(-ONE, Min(ONE - 1, x))
\* app.js:417  Math.max(-1, Math.min(1, x))
Clamp(x) == Max(-ONE, Min(ONE, x))

\* the integer part of num / den, as a store into an Int16Array takes it
Truncate(num, den) == IF num >= 0 THEN num \div den ELSE (num + den - 1) \div den

\* a store into an Int16Array keeps the low 16 bits
ToInt16(v) == ((v + 32768) % 65536) - 32768

\* app.js:417-418  s < 0 ? s * 0x8000 : s * 0x7FFF
SampleTo16BitPCM(x) ==
    LET s == Clamp(x)
    IN ToInt16(Truncate(IF s < 0 THEN s * 32768 ELSE s * 32767, ONE))

\* app.js:414-421  floatTo16BitPCM
FloatTo16BitPCM(float32Array) ==
    [i \in 1..Len(float32Array) |-> SampleTo16BitPCM(float32Array[i])]

\* app.js:455-457  int16View[i] / 32768.0
FromPCM16(int16View) == [i \in 1..Len(int16View) |-> (int16View[i] * ONE) \div 32768]

Conv(op, from, to) == [op |-> op, from |-> from, to |-> to]

\* a block of samples at some rate is handed to the converter
ConverterInit ==
    /\ RelayInit
    /\ clientState = [k \in Clients |-> IF k = 1 THEN "OPEN" ELSE "NONE"]
    /\ AppInit
    /\ AudioProcessorInit
    /\ convOrig \in Blocks
    /\ convRate \in ConvRates
    /\ convKind = "float"
    /\ convData = convOrig
    /\ convChain = <<>>
    /\ convReads = {}

\* app.js:379  resample(inputData, rate, outputSampleRate)
ConvResample(outputSampleRate) ==
    /\ convKind = "float"
    /\ Len(convChain) < MaxOps
    /\ convData' = Resample(convData, convRate, outputSampleRate)
    /\ convReads' = SrcIndices(Len(convData), convRate, outputSampleRate)
    /\ convRate' = outputSampleRate
    /\ convChain' = Append(convChain, Conv("resample", convRate, outputSampleRate))
    /\ UNCHANGED <<convOrig, convKind>>
    /\ UNCHANGED <<relayVars, appVars, workletVars>>

\* app.js:380  floatTo16BitPCM(resampledData)
ConvToPCM ==
    /\ convKind = "float"
    /\ Len(convChain) < MaxOps
    /\ convData' = FloatTo16BitPCM(convData)
    /\ convReads' = {}
    /\ convKind' = "pcm"
    /\ convChain' = Append(convChain, Conv("toPCM", convRate, convRate))
    /\ UNCHANGED <<convOrig, convRate>>
    /\ UNCHANGED <<relayVars, appVars, workletVars>>

\* app.js:451-457  the playback conversion of playAudio
ConvFromPCM ==
    /\ convKind = "pcm"
    /\ Len(convChain) < MaxOps
    /\ convData' = FromPCM16(convData)
    /\ convReads' = {}
    /\ convKind' = "float"
    /\ convChain' = Append(convChain, Conv("fromPCM", convRate, convRate))
    /\ UNCHANGED <<convOrig, convRate>>
    /\ UNCHANGED <<relayVars, appVars, workletVars>>

ConverterNext ==
    \/ \E outputSampleRate \in ConvRates : ConvResample(outputSampleRate)
    \/ ConvToPCM
    \/ ConvFromPCM

\* the converter applied to every block of Blocks
ConverterSpec == ConverterInit /\ [][ConverterNext]_vars

\* ----------------------------------------------------- microphone worklet
MaxBlocks == 3          \* blocks of bufferSize samples the process calls may be given

\* audio-processor.js:9
bufferSize == 4096

\* lengths of inputChannel in one process call: a render quantum of 128
\* samples, and lengths around the block size
InputSizes == {128, 4095, 4096, 4097}

\* the samples lo..hi of the stream, stored at buffer[at], buffer[at + 1], ...
Run(at, lo, hi) == [at |-> at, lo |-> lo, hi |-> hi]

\* audio-processor.js:21  this.buffer[this.bufferIndex++] = inputChannel[i],
\* for the samples lo..hi in a row, the first at buffer[index]
StoreRun(buf, index, lo, hi) ==
    IF /\ buf # <<>>
       /\ buf[Len(buf)].at + (buf[Len(buf)].hi - buf[Len(buf)].lo) + 1 = index
       /\ buf[Len(buf)].hi + 1 = lo
    THEN [buf EXCEPT ![Len(buf)].hi = hi]
    ELSE Append(buf, Run(index, lo, hi))

BlockFullEarly(index) == index >= bufferSize - 1
\* audio-processor.js:23  if (this.bufferIndex >= this.bufferSize)
BlockFull(index) == index >= bufferSize

\* audio-processor.js:20-23  the number of samples the loop stores, starting
\* with bufferIndex = index, until the test of line 23 succeeds
Room(index) ==
    LET full == {r \in 1..bufferSize : BlockFull(index + r)}
    IN CHOOSE r \in full : \A q \in full : r <= q

RECURSIVE ProcessLoop(_, _, _)
\* audio-processor.js:20-36  the loop over inputChannel for the samples lo..hi
\* of the stream, taken a run at a time: the samples up to the next post are
\* stored, and when the buffer is full it is resampled, converted and posted,
\* a new buffer is allocated and bufferIndex is reset
ProcessLoop(st, lo, hi) ==
    IF lo > hi THEN st
    ELSE LET m == Min(hi - lo + 1, Room(st.bufferIndex))
             stored == [st EXCEPT !.buffer = StoreRun(st.buffer, st.bufferIndex, lo, lo + m - 1),
                                  !.bufferIndex = st.bufferIndex + m]
             after == IF BlockFull(stored.bufferIndex)
                      THEN [bufferIndex |-> 0, buffer |-> <<>>,
                            posted |-> Append(stored.posted, stored.buffer)]
                      ELSE stored
         IN ProcessLoop(after, lo + m, hi)

\* audio-processor.js:14-40  process(inputs): channels is inputs[0].length and
\* n the length of inputs[0][0]
Process(channels, n) ==
    /\ streamPos + n <= MaxBlocks * bufferSize
    /\ IF channels > 0
       THEN LET st == ProcessLoop([bufferIndex |-> bufferIndex, buffer |-> buffer,
                                   posted |-> posted],
                                  streamPos + 1, streamPos + n)
            IN /\ bufferIndex' = st.bufferIndex
               /\ buffer' = st.buffer
               /\ posted' = st.posted
               /\ streamPos' = streamPos + n
       ELSE UNCHANGED workletVars
    /\ UNCHANGED <<relayVars, appVars, convVars>>

WorkletNext == \E channels \in {0, 1}, n \in InputSizes : Process(channels, n)

WorkletSpec == Init /\ [][WorkletNext]_vars
\* ------------------------------------------------------------------ claims
\* steps of the start handler
IsStart == nextConn' = nextConn + 1
IsStartOf(k) == IsStart /\ clientWs'[nextConn] = k
IsResume(c) == handler[c] = "awaiting" /\ handler'[c] = "done"
IsWsError(c) == ~errored[c] /\ errored'[c]

Delivers(effs, c, type, data) ==
    \E i \in 1..Len(effs), k \in Clients : effs[i] = Down(k, c, type, data)

\* the upstream connections created by starts of client k
ConnsOf(k) == {c \in Conns : clientWs[c] = k}

\* C1: in every reachable state at most one upstream connection of the client
\* is live (created and not yet asked to close), also when a second start
\* arrives while the setup of the first is pending.
C1_AtMostOneLive ==
    \A k \in Clients : Cardinality({c \in ConnsOf(k) : Live(c)}) <= 1

\* C2: a start processed while the session holds a handle calls close() on that
\* handle before it creates the new transport, and when the setup of the new
\* connection completes the session references the new handle.
C2_CloseBeforeCreate ==
    [][/\ \A k \in Clients :
            (IsStartOf(k) /\ geminiWs[k] # NULL) =>
                /\ effects' = <<CloseWs(geminiWs[k]), NewWs(nextConn)>>
                /\ wsState'[geminiWs[k]] \notin {"CONNECTING", "OPEN"}
                /\ wsState'[nextConn] = "CONNECTING"
       /\ \A c \in Conns :
            (IsResume(c) /\ promise[c] = "resolved") => geminiWs'[clientWs[c]] = c
      ]_vars

C2_Witness ==
    /\ geminiWs[1] = 1
    /\ effects = <<CloseWs(1), NewWs(2)>>
    /\ wsState[1] = "CLOSING"
    /\ wsState[2] = "CONNECTING"

\* C3: a stop or a disconnect while the setup of a start is in flight cancels
\* it: no 'connected' status is sent for that start, the session does not
\* install its handle, and no media is forwarded on it.
C3_CancelledSetupIgnored ==
    \A c \in cancelled :
        /\ connected[c] = 0
        /\ \A k \in Clients : geminiWs[k] # c
        /\ \A i \in 1..Len(effects) :
             ~(effects[i].op = "ws.send" /\ effects[i].conn = c
               /\ effects[i].type \in {AUDIO_MIME, VIDEO_MIME})

\* C4: after the downstream client has disconnected, whatever the session state
\* was, every upstream connection of the client is closed: once its start
\* handlers have finished and its timers have fired none is left open.
C4_DisconnectClosesAll ==
    \A k \in Clients :
        (/\ clientState[k] = "CLOSED"
         /\ \A c \in ConnsOf(k) : handler[c] # "awaiting" /\ timer[c] # "armed")
        => \A c \in ConnsOf(k) : ~Live(c)

\* C5: a 'connected' status is sent only after the connection created by that
\* start has emitted setup-complete, and exactly once for each start whose
\* setup completes.
C5_ConnectedOnceAfterSetupComplete ==
    [][\A c \in Conns :
         /\ Delivers(effects', c, "status", "connected") =>
                /\ isSetupComplete[c]
                /\ IsResume(c)
                /\ connected[c] = 0
         /\ (IsResume(c) /\ promise[c] = "resolved" /\ clientState[clientWs[c]] = "OPEN") =>
                /\ effects' = <<Down(clientWs[c], c, "status", "connected")>>
                /\ connected'[c] = 1
         /\ connected'[c] # connected[c] => Delivers(effects', c, "status", "connected")
         /\ handler[c] = "done" => handler'[c] = "done"
      ]_vars

C5_Witness ==
    \E c \in Conns :
        /\ connected[c] = 1
        /\ isSetupComplete[c]
        /\ effects = <<Down(clientWs[c], c, "status", "connected")>>

\* C6: when the construction of the upstream session fails, the relay sends a
\* downstream error, sends no 'connected' status for that start and is IDLE
\* afterwards, holding no upstream handle, also when the failing start was
\* issued while a previous session was ACTIVE.
C6_FailedStartLeavesIdle ==
    [][\A c \in Conns :
         (IsResume(c) /\ promise[c] = "rejected") =>
            /\ clientState[clientWs[c]] = "OPEN" =>
                  effects' = <<Down(clientWs[c], c, "error", rejectReason[c])>>
            /\ connected'[c] = 0
            /\ geminiWs'[clientWs[c]] = NULL
      ]_vars

\* C7: createGeminiConnection does not wait forever: when the timer fires the
\* construction fails and the awaiting start handler observes it, so every
\* start ends with a 'connected' status or an error sent downstream (as long
\* as the downstream socket is there to receive it).
C7_StartEventuallyAnswered ==
    \A c \in Conns :
        (handler[c] = "awaiting") ~>
            (/\ handler[c] = "done"
             /\ connected[c] >= 1 \/ errorsSent[c] >= 1 \/ clientState[clientWs[c]] = "CLOSED")

C7_Witness ==
    \E c \in Conns :
        /\ handler[c] = "done"
        /\ timer[c] = "fired"
        /\ rejectReason[c] = TIMEOUT_MESSAGE
        /\ ~isSetupComplete[c]
        /\ errorsSent[c] = 1
        /\ effects = <<Down(clientWs[c], c, "error", TIMEOUT_MESSAGE)>>

\* C8: a start that fails because the setup handshake timed out causes exactly
\* one downstream error message.
C8_SingleErrorOnTimeout ==
    \A c \in Conns : rejectReason[c] = TIMEOUT_MESSAGE => errorsSent[c] <= 1

\* C9: after the timeout of an attempt whose setup never completed the transport
\* of that attempt has been closed; no transport of a failed construction is
\* left open.
C9_NoOpenTransportAfterFailure ==
    \A c \in Conns :
        /\ promise[c] = "rejected" => ~Live(c)
        /\ (timer[c] = "fired" /\ ~isSetupComplete[c]) => ~Live(c)

C9_Witness ==
    \E c \in Conns :
        /\ rejectReason[c] = TIMEOUT_MESSAGE
        /\ setupSent[c]
        /\ ~errored[c]
        /\ wsState[c] = "CLOSING"
        /\ effects = <<CloseWs(c)>>

\* C10: a transport error calls the error callback with the error's message;
\* before setup-complete it also rejects the pending construction, after
\* setup-complete it neither rejects nor alters the resolved handle.
C10_ErrorCallbackAndReject ==
    [][\A c \in Conns :
         IsWsError(c) =>
            /\ \E e \in ErrorMessages :
                 /\ effects' = ClientSend(clientWs[c], c, "error", e)
                 /\ (promise[c] = "pending" /\ ~isSetupComplete[c]) =>
                        (promise'[c] = "rejected" /\ rejectReason'[c] = e)
            /\ errorsSent'[c] = errorsSent[c] + Delivered(clientWs[c])
            /\ isSetupComplete[c] =>
                 /\ promise'[c] = promise[c]
                 /\ rejectReason'[c] = rejectReason[c]
                 /\ geminiWs' = geminiWs
                 /\ isSetupComplete'[c]
      ]_vars

C10_Witness ==
    \E c \in Conns, e \in ErrorMessages :
        /\ errored[c]
        /\ isSetupComplete[c]
        /\ promise[c] = "resolved"
        /\ geminiWs[clientWs[c]] = c
        /\ effects = <<Down(clientWs[c], c, "error", e)>>

\* steps of the downstream message handler
MediaKinds == {"audio", "video"}
IsMedia(k, kind, d) == ClientMedia(k, kind, d)

\* a stop was processed after the last start of client k, while that start's
\* setup was pending
StoppedSinceStart(k) ==
    /\ clientState[k] = "OPEN"
    /\ \E c \in ConnsOf(k) : c \in cancelled /\ \A d \in ConnsOf(k) : d <= c

\* the session of client k holds a handle whose transport is open
Active(k) == geminiWs[k] # NULL /\ wsState[geminiWs[k]] = "OPEN"

AudioRelays(effs) == SelectSeq(effs, LAMBDA x : x.op = "clientWs.send" /\ x.type = "audio")
Payloads(m) == SelectSeq(m.audio, LAMBDA p : p # "")
Count(seq, x) == Cardinality({i \in 1..Len(seq) : seq[i] = x})

\* C11: an audio or video message received while the session is not ACTIVE
\* (no handle, handle not open, or after a stop) causes no upstream send and no
\* downstream error.
C11_MediaIgnoredWhenNotActive ==
    [][\A k \in Clients, kind \in MediaKinds, d \in ChunkData :
         (IsMedia(k, kind, d) /\ (~Active(k) \/ StoppedSinceStart(k))) => effects' = <<>>
      ]_vars

\* C12: every stop closes the held handle if there is one, sends exactly one
\* 'stopped' status and leaves the session with no handle; a stop with no
\* handle held closes nothing, sends no error and still answers 'stopped'.
C12_StopClosesAndAnswers ==
    [][\A k \in Clients :
         ClientStop(k) =>
            /\ geminiWs'[k] = NULL
            /\ geminiWs[k] # NULL =>
                  /\ effects' = <<CloseWs(geminiWs[k]), Down(k, NULL, "status", "stopped")>>
                  /\ wsState'[geminiWs[k]] \notin {"CONNECTING", "OPEN"}
                  /\ \A c \in Conns \ {geminiWs[k]} : wsState'[c] = wsState[c]
            /\ geminiWs[k] = NULL =>
                  /\ effects' = <<Down(k, NULL, "status", "stopped")>>
                  /\ wsState' = wsState
            /\ errorsSent' = errorsSent
      ]_vars

C12_Witness ==
    \E k \in Clients, c \in Conns :
        /\ effects = <<CloseWs(c), Down(k, NULL, "status", "stopped")>>
        /\ geminiWs[k] = NULL
        /\ wsState[c] = "CLOSING"
        /\ connected[c] = 1

\* C13: when the upstream connection of an ACTIVE session closes abruptly the
\* session goes to IDLE: it no longer holds the dead handle.
C13_AbruptCloseDropsHandle ==
    [][\A c \in Conns :
         (WsClose(c) /\ wsState[c] = "OPEN" /\ geminiWs[clientWs[c]] = c)
            => geminiWs'[clientWs[c]] = NULL
      ]_vars

\* the held connection c was ACTIVE and its transport closed without the relay
\* asking for it (no stop, no later start, no disconnect)
MidSessionClosed(c) ==
    /\ clientWs[c] # NULL
    /\ geminiWs[clientWs[c]] = c
    /\ \A d \in ConnsOf(clientWs[c]) : d <= c
    /\ clientState[clientWs[c]] = "OPEN"
    /\ connected[c] = 1
    /\ wsState[c] = "CLOSED"

\* C14 (as stated): a mid-session upstream failure is surfaced as a
\* 'disconnected' status plus an error message.
C14_DisconnectedPlusError ==
    \A c \in Conns :
        MidSessionClosed(c) => (disconnected[c] = 1 /\ errorsSent[c] >= 1)

\* C14 (amended): a mid-session upstream failure is surfaced as one
\* 'disconnected' status, with an error message only when the transport
\* reported an error; a new upstream transport is created only by a start.
C14_DisconnectedNoReconnect ==
    /\ [](\A c \in Conns :
            MidSessionClosed(c) =>
                /\ disconnected[c] = 1
                /\ errorsSent[c] = IF errored[c] THEN 1 ELSE 0)
    /\ [][(nextConn' # nextConn \/ \E c \in Conns : wsState[c] = "NONE" /\ wsState'[c] # "NONE")
            => \E k \in Clients, m \in StartMessages : ClientStart(k, m.voice, m.systemPrompt)
         ]_vars

C14_Witness ==
    \E c \in Conns :
        /\ MidSessionClosed(c)
        /\ errored[c]
        /\ errorsSent[c] = 1
        /\ disconnected[c] = 1
        /\ effects = <<Down(clientWs[c], c, "status", "disconnected")>>

\* C15: while ACTIVE each audio or video message produces exactly one upstream
\* message with one media chunk: the message's data unchanged, mimeType
\* 'audio/pcm;rate=16000' for audio and 'image/jpeg' for video.
C15_ActiveMediaForwardedUnchanged ==
    [][\A k \in Clients, d \in ChunkData :
         /\ (IsMedia(k, "audio", d) /\ Active(k)) =>
                effects' = <<Up(geminiWs[k], AUDIO_MIME, d, "")>>
         /\ (IsMedia(k, "video", d) /\ Active(k)) =>
                effects' = <<Up(geminiWs[k], VIDEO_MIME, d, "")>>
      ]_vars

C15_Witness ==
    \E k \in Clients, c \in Conns :
        /\ geminiWs[k] = c
        /\ wsState[c] = "OPEN"
        /\ effects = <<Up(c, VIDEO_MIME, "QUJD", "")>>

\* C16: each inline audio payload of an upstream event is relayed downstream
\* as one {type:'audio', data} message with the provider's payload unchanged.
C16_AudioRelayedUnchanged ==
    [][\A c \in Conns, m \in ProviderMessages :
         (WsMessage(c, m) /\ clientState[clientWs[c]] = "OPEN") =>
            /\ Len(AudioRelays(effects')) = Len(Payloads(m))
            /\ \A i \in 1..Len(m.audio) :
                 m.audio[i] # "" =>
                    Count(effects', Down(clientWs[c], c, "audio", m.audio[i]))
                        = Count(m.audio, m.audio[i])
      ]_vars

C16_Witness ==
    \E k \in Clients, c \in Conns :
        effects = <<Down(k, c, "audio", "UklG"), Down(k, c, "audio", "AAAB")>>

\* C17: chunks are sent upstream in the order received, one upstream message per
\* chunk, never batched or reordered: a media chunk goes upstream only inside
\* the handler of the downstream message that carried it, alone, on the held
\* handle.
C17_ChunksForwardedInArrivalOrder ==
    [][\A i \in 1..Len(effects') :
         (effects'[i].op = "ws.send" /\ effects'[i].type \in {AUDIO_MIME, VIDEO_MIME}) =>
            /\ Len(effects') = 1
            /\ \E k \in Clients, kind \in MediaKinds :
                 /\ effects'[i].conn = geminiWs[k]
                 /\ IsMedia(k, kind, effects'[i].data)
                 /\ effects'[i].type = IF kind = "audio" THEN AUDIO_MIME ELSE VIDEO_MIME
      ]_vars

C17_Witness ==
    \E k \in Clients, c \in Conns :
        /\ geminiWs[k] = c
        /\ wsState[c] = "OPEN"
        /\ effects = <<Up(c, AUDIO_MIME, "AAEC", "")>>

\* C18: the messages relayed downstream for one upstream session appear in the
\* order of the provider events that caused them: each is sent inside the
\* callback of its event, and the audio of one event keeps the order of its parts.
C18_ProviderEventsRelayedInOrder ==
    [][/\ \A i \in 1..Len(effects') :
            LET x == effects'[i] IN
            (x.op = "clientWs.send" /\ x.conn \in Conns) =>
                /\ x.type \in {"audio", "text"} =>
                      \E m \in ProviderMessages : WsMessage(x.conn, m)
                /\ (x.type = "status" /\ x.data = "disconnected") => WsClose(x.conn)
                /\ x.type = "error" =>
                      \/ \E e \in ErrorMessages : WsError(x.conn, e) /\ x.data = e
                      \/ StartResume(x.conn) /\ promise[x.conn] = "rejected"
       /\ \A c \in Conns, m \in ProviderMessages :
            (WsMessage(c, m) /\ clientState[clientWs[c]] = "OPEN") =>
                AudioRelays(effects') =
                    [i \in 1..Len(Payloads(m)) |-> Down(clientWs[c], c, "audio", Payloads(m)[i])]
      ]_vars

C18_Witness ==
    \E k \in Clients, c \in Conns :
        effects = <<Down(k, c, "audio", "UklG"), Down(k, c, "text", "hello"),
                    Down(k, c, "text", "hello")>>

\* C19: every text message sent downstream carries a source field equal to
\* 'user' or 'ai'.
C19_TextCarriesSource ==
    \A i \in 1..Len(effects) :
        (effects[i].op = "clientWs.send" /\ effects[i].type = "text") =>
            effects[i].aux \in {"user", "ai"}

\* C20: a malformed downstream message makes the relay send one error message
\* and changes nothing else: handle, configuration and upstream connections are
\* unchanged and nothing is sent upstream.
C20_MalformedOnlyReportsError ==
    [][\A k \in Clients :
         (ClientMalformed(k) \/ \E i \in 1..Len(effects') :
                                    effects'[i] = Down(k, NULL, "error", PARSE_ERROR)) =>
            /\ effects' = <<Down(k, NULL, "error", PARSE_ERROR)>>
            /\ UNCHANGED <<geminiWs, sessionConfig, clientState, nextConn, connVars,
                           connected, errorsSent, disconnected, cancelled>>
      ]_vars

C20_Witness ==
    \E k \in Clients :
        /\ Active(k)
        /\ connected[geminiWs[k]] = 1
        /\ effects = <<Down(k, NULL, "error", PARSE_ERROR)>>


\* every handle is held by the session whose start created its connection, and
\* no two sessions hold the same one
OwnHandles ==
    \A k \in Clients :
        geminiWs[k] # NULL =>
            /\ clientWs[geminiWs[k]] = k
            /\ \A j \in Clients \ {k} : geminiWs[j] # geminiWs[k]

\* C21: with several downstream clients connected, each upstream connection
\* belongs to exactly one session: a chunk from client k is sent only on a
\* connection created by a start of k, an upstream event is relayed only to the
\* client whose start created its connection, and a start, stop or disconnect
\* of k leaves the handles and the transports of every other client as they
\* were.
C21_SessionsIsolated ==
    [][/\ OwnHandles'
       /\ \A k \in Clients :
            (\E kind \in {"audio", "video"}, d \in MultiChunkData : ClientMedia(k, kind, d)) =>
                \A i \in 1..Len(effects') :
                    effects'[i].op = "ws.send" /\ clientWs[effects'[i].conn] = k
       /\ \A i \in 1..Len(effects') :
            (effects'[i].op = "clientWs.send" /\ effects'[i].conn # NULL) =>
                effects'[i].to = clientWs[effects'[i].conn]
       /\ \A k \in Clients :
            (\/ IsStartOf(k)
             \/ ClientStop(k)
             \/ ClientClose(k)) =>
                \A j \in Clients \ {k} :
                    /\ geminiWs'[j] = geminiWs[j]
                    /\ \A c \in ConnsOf(j) : wsState'[c] = wsState[c]
      ]_vars

\* both clients hold an open connection and client 2 has just sent a chunk
C21_Witness ==
    /\ Active(1)
    /\ Active(2)
    /\ effects = <<Up(geminiWs[2], AUDIO_MIME, "QUJD", "")>>

\* a step of playAudio that scheduled a buffer on the running context
Schedules == Len(scheduled') = Len(scheduled) + 1

\* C22: a buffer scheduled after another one on the same audio context starts
\* exactly at the start of the previous buffer plus its duration, or at the
\* current playback clock if that instant is already in the past; so start
\* times do not decrease in arrival order and no two scheduled buffers overlap.
C22_BackToBackOrNow ==
    [][/\ (Schedules /\ Len(scheduled) >= 1) =>
            LET prev == scheduled[Len(scheduled)]
                new == scheduled'[Len(scheduled')]
                end == prev.start + prev.duration
            IN /\ SubSeq(scheduled', 1, Len(scheduled)) = scheduled
               /\ new.start = IF end < currentTime THEN currentTime ELSE end
       /\ \A i, j \in 1..Len(scheduled') :
            i < j => /\ scheduled'[i].start <= scheduled'[j].start
                     /\ scheduled'[i].start + scheduled'[i].duration <= scheduled'[j].start
      ]_vars

\* three buffers: the second arrived after the first had ended, the third
\* while the second was still to end
C22_Witness ==
    /\ Len(scheduled) = 3
    /\ scheduled[2].start > scheduled[1].start + scheduled[1].duration
    /\ scheduled[3].start = scheduled[2].start + scheduled[2].duration

\* the audio chunks that decode to no sample at all
ZeroLength(chunk) == chunk.base64 /\ chunk.bytes = 0

\* C23: a zero-length audio buffer arriving at the client is skipped: no source
\* is scheduled for it and nextPlayTime is left unchanged.
C23_ZeroLengthSkipped ==
    [][\A message \in ServerMessages :
         (message.type = "audio" /\ ZeroLength(message.data) /\ Receive(message)) =>
            UNCHANGED <<nextPlayTime, scheduled, sources, isPlaying>>
      ]_vars

\* a zero-length chunk was skipped while a buffer was scheduled
C23_Witness ==
    /\ Len(playErrors) = 1
    /\ ZeroLength(playErrors[1])
    /\ Len(scheduled) >= 1
    /\ nextPlayTime > 0

\* the audio chunks that playAudio cannot decode: text that is not base64, or
\* an odd number of bytes
Corrupt(chunk) == ~chunk.base64 \/ chunk.bytes % 2 # 0

\* C24: a corrupt audio chunk is dropped without scheduling anything and
\* without changing nextPlayTime; the conversation stays active (socket open,
\* isActive unchanged), and since the scheduler is left as it was the next
\* valid chunk is scheduled as if the corrupt one had never arrived.
C24_CorruptChunkDropped ==
    [][\A message \in ServerMessages :
         (message.type = "audio" /\ Corrupt(message.data) /\ Receive(message)) =>
            /\ UNCHANGED <<nextPlayTime, scheduled, sources, isPlaying, audioContext,
                           currentTime>>
            /\ UNCHANGED <<isActive, browserWs>>
            /\ browserWs' = "OPEN"
      ]_vars

\* a corrupt chunk was dropped in an active conversation with audio scheduled
C24_Witness ==
    /\ Len(playErrors) = 1
    /\ Corrupt(playErrors[1])
    /\ isActive
    /\ browserWs = "OPEN"
    /\ Len(scheduled) >= 1
    /\ nextPlayTime > 0

\* C30 as stated: the playback cursor nextPlayTime never decreases, whatever
\* the client does (audio chunk arrival, buffer completion, stopping and
\* restarting a conversation).
C30_CursorNeverDecreases == [][nextPlayTime' >= nextPlayTime]_vars

\* C30 as amended: nextPlayTime never decreases while the audio context stays
\* in use (audio chunk arrival, buffer completion, a new conversation); the
\* only step that lowers it is stopConversation, which closes the audio
\* context and resets the cursor to 0.
C30_CursorDecreasesOnlyOnStop ==
    [][/\ audioContext' = "running" => nextPlayTime' >= nextPlayTime
       /\ nextPlayTime' < nextPlayTime =>
            /\ nextPlayTime' = 0
            /\ audioContext' = "null"
            /\ ~isActive'
            /\ ~isPlaying'
      ]_vars

\* a conversation in which audio was scheduled has been stopped
C30_Witness ==
    /\ audioContext = "null"
    /\ Len(scheduled) >= 2
    /\ nextPlayTime = 0

\* every conversion applied so far was a resampling to the rate the block
\* already had
OnlySameRateResampling ==
    \A j \in 1..Len(convChain) :
        convChain[j].op = "resample" /\ convChain[j].from = convChain[j].to

\* C25: resampling a block with the input rate equal to the output rate
\* returns a block of the same length with every sample equal to the input
\* sample at the same index, so resampling from R to R and back is the
\* identity.
C25_SameRateResamplingIsIdentity ==
    OnlySameRateResampling =>
        /\ Len(convData) = Len(convOrig)
        /\ \A i \in 1..Len(convOrig) : convData[i] = convOrig[i]

\* a block of two different samples was resampled from R to R and back
C25_Witness ==
    /\ Len(convChain) = 2
    /\ OnlySameRateResampling
    /\ Len(convOrig) = 2
    /\ convOrig[1] # convOrig[2]

\* 1 LSB of a 16-bit sample, 1/32768, as a numerator
LSB == ONE \div 32768

\* the block was converted to 16-bit PCM and back, and nothing else
PCMRoundTrip ==
    /\ Len(convChain) = 2
    /\ convChain[1].op = "toPCM"
    /\ convChain[2].op = "fromPCM"

\* C26: for every sample x in [-1, 1], converting x to 16-bit PCM with
\* floatTo16BitPCM and back with the playback conversion reproduces x within
\* 1 LSB: the absolute error is at most 1/32768, for negative as well as
\* positive x.
C26_RoundTripWithinOneLSB ==
    PCMRoundTrip =>
        \A i \in 1..Len(convOrig) :
            (convOrig[i] >= -ONE /\ convOrig[i] <= ONE) =>
                /\ convData[i] - convOrig[i] <= LSB
                /\ convOrig[i] - convData[i] <= LSB

\* C27: the setup descriptor sent on an upstream connection carries the voice
\* and the system prompt of the start message that created the connection (the
\* default voice and prompt when the message omits them): a later start uses
\* its own values, and no step changes the configuration of a connection once
\* it is created.
C27_SetupCarriesOwnStartConfig ==
    [][/\ \A k \in Clients, m \in StartMessages :
            (IsStartOf(k) /\ ClientStart(k, m.voice, m.systemPrompt)) =>
                connConfig'[nextConn] =
                    [voice |-> IF m.voice = "" THEN "Kore" ELSE m.voice,
                     systemPrompt |-> IF m.systemPrompt = ""
                                      THEN "You are a helpful assistant."
                                      ELSE m.systemPrompt]
       /\ \A c \in Conns : clientWs[c] # NULL => connConfig'[c] = connConfig[c]
       /\ \A i \in 1..Len(effects') :
            (effects'[i].op = "ws.send" /\ effects'[i].type = "setup") =>
                /\ effects'[i].data = connConfig[effects'[i].conn].voice
                /\ effects'[i].aux = connConfig[effects'[i].conn].systemPrompt
      ]_vars

\* the first start omitted voice and prompt, the second gave them: the setup
\* descriptor of the second connection has just been sent with its own values
C27_Witness ==
    /\ setupSent[1]
    /\ connConfig[1] = [voice |-> "Kore", systemPrompt |-> "You are a helpful assistant."]
    /\ effects = <<Up(2, "setup", "Puck", "test")>>

\* C28: an event with output transcript text invokes the text callback with
\* that text tagged 'ai', one with input transcript text invokes it with that
\* text tagged 'user', an event with neither invokes no text callback, and a
\* turn-completion signal invokes no callback at all.
C28_TextCallbackTags ==
    [][\A c \in Conns, m \in ProviderMessages :
         WsMessage(c, m) =>
            /\ m.outputTranscription # "" =>
                 \E i \in 1..Len(messageCalls') :
                    messageCalls'[i] = Call("onText", m.outputTranscription, "ai")
            /\ m.inputTranscription # "" =>
                 \E i \in 1..Len(messageCalls') :
                    messageCalls'[i] = Call("onText", m.inputTranscription, "user")
            /\ \A i \in 1..Len(messageCalls') :
                 messageCalls'[i].cb = "onText" =>
                    \/ /\ m.outputTranscription # ""
                       /\ messageCalls'[i] = Call("onText", m.outputTranscription, "ai")
                    \/ /\ m.inputTranscription # ""
                       /\ messageCalls'[i] = Call("onText", m.inputTranscription, "user")
            /\ (m.turnComplete /\ m.audio = <<>> /\ m.outputTranscription = ""
                /\ m.inputTranscription = "") => messageCalls' = <<>>
      ]_vars

\* an event with input transcript text has just been handled
C28_Witness ==
    \E i \in 1..Len(messageCalls) : messageCalls[i] = Call("onText", "hi", "user")

\* C29: on each upstream connection the setup descriptor is the first message
\* sent, it is sent exactly once, when the transport opens, and no media chunk
\* is sent on the connection before the provider's setup-complete event has
\* been received.
C29_SetupFirstAndOnce ==
    [][/\ \A i \in 1..Len(effects') :
            effects'[i].op = "ws.send" =>
                LET c == effects'[i].conn
                IN IF effects'[i].type = "setup"
                   THEN /\ ~setupSent[c]
                        /\ setupSent'[c]
                        /\ wsState[c] = "CONNECTING"
                        /\ wsState'[c] = "OPEN"
                        /\ Len(effects') = 1
                   ELSE /\ setupSent[c]
                        /\ isSetupComplete[c]
       /\ \A c \in Conns :
            (wsState[c] = "CONNECTING" /\ wsState'[c] = "OPEN") =>
                \E i \in 1..Len(effects') :
                    effects'[i].op = "ws.send" /\ effects'[i].conn = c
                    /\ effects'[i].type = "setup"
      ]_vars

\* a media chunk has just been sent on a connection whose setup is complete
C29_Witness ==
    \E c \in Conns :
        /\ effects = <<Up(c, AUDIO_MIME, "QUJD", "")>>
        /\ setupSent[c]
        /\ isSetupComplete[c]

\* the page shows the speaking state and the playback clock has caught up to
\* nextPlayTime
SpeakingCaughtUp ==
    /\ speaking
    /\ audioContext = "running"
    /\ currentTime >= nextPlayTime

\* C31: whenever an audio chunk (valid, corrupt or empty) has put the page in
\* the speaking state and the playback clock has caught up to nextPlayTime,
\* the page eventually leaves the speaking state, unless a further buffer is
\* scheduled meanwhile: it never stays in 'speaking' forever.
C31_SpeakingEventuallyIdle ==
    \A n \in 0..MaxChunks :
        (SpeakingCaughtUp /\ Len(scheduled) = n) ~> (~speaking \/ Len(scheduled) # n)

C33_PCMClampedNoWrap ==
    [][ConvToPCM =>
         \A i \in 1..Len(convData) :
            LET x == convData[i]
                y == convData'[i]
            IN /\ y \in -32768..32767
               /\ x >= ONE => y = 32767
               /\ x <= -ONE => y = -32768
               /\ x > 0 => y >= 0
               /\ x < 0 => y <= 0
               /\ x = 0 => y = 0
      ]_vars

\* a block holding 1.5 and -1.5 was converted to 16-bit PCM
C33_Witness ==
    /\ convChain = <<Conv("toPCM", 48, 48)>>
    /\ convOrig = <<98304, -98304>>
    /\ convData = <<32767, -32768>>

\* the handler of the step called close() on the handle of connection c
ClosesHandle(c) == \E i \in 1..Len(effects') : effects'[i] = CloseWs(c)

\* C34: sendAudio and sendVideo on a handle whose transport is no longer open
\* send nothing and raise no exception (the handler reports no error and
\* changes nothing), and close() on a handle whose transport is already closed
\* has no effect on it.
C34_ClosedHandleIsInert ==
    [][/\ \A k \in Clients, kind \in {"audio", "video"}, d \in ChunkData :
            (/\ Handle(k) # NULL
             /\ wsState[Handle(k)] # "OPEN"
             /\ IsMedia(k, kind, d)) =>
                /\ effects' = <<>>
                /\ UNCHANGED <<geminiWs, connVars, errorsSent>>
       /\ \A c \in Conns :
            (wsState[c] = "CLOSED" /\ ClosesHandle(c)) =>
                /\ wsState'[c] = "CLOSED"
                /\ \A i \in 1..Len(effects') : effects'[i].type # "error"
      ]_vars

\* a stop closed the handle of a session whose transport the provider had
\* already closed
C34_Witness ==
    \E c \in Conns :
        /\ effects = <<CloseWs(c), Down(1, NULL, "status", "stopped")>>
        /\ connected[c] = 1
        /\ wsState[c] = "CLOSED"

\* the session of the client installed the handle of connection c and no
\* longer references it: a newer start replaced it or a stop discarded it
Discarded(c) ==
    /\ clientWs[c] # NULL
    /\ handler[c] = "done"
    /\ promise[c] = "resolved"
    /\ geminiWs[clientWs[c]] # c

\* C35: events of an upstream connection the session no longer references
\* produce no downstream message: after a restart or a stop, audio, text,
\* error and close events of the discarded connection are not relayed, and
\* closing the old connection emits no 'disconnected' status.
C35_DiscardedConnectionSilent ==
    [][\A c \in Conns :
         Discarded(c) =>
            \A i \in 1..Len(effects') :
                ~(effects'[i].op = "clientWs.send" /\ effects'[i].conn = c)
      ]_vars

\* C36: every 'disconnected' status sent downstream is preceded by a
\* 'connected' status for the same upstream connection: a connection that
\* closes, errors or times out before its setup completed never causes a
\* 'disconnected' status.
C36_DisconnectedOnlyAfterConnected ==
    [][\A c \in Conns :
         Delivers(effects', c, "status", "disconnected") => connected[c] >= 1
      ]_vars

TextRelays(effs) == SelectSeq(effs, LAMBDA x : x.op = "clientWs.send" /\ x.type = "text")

\* C37: each provider event carrying output transcript text causes exactly one
\* invocation of the text callback for it, and therefore exactly one downstream
\* text message: no transcript fragment is delivered twice.
C37_OutputTranscriptOnce ==
    [][\A c \in Conns, m \in ProviderMessages :
         (m.outputTranscription # "" /\ WsMessage(c, m)) =>
            /\ Count(messageCalls', TextCall(m.outputTranscription, "ai")) = 1
            /\ Len(TextRelays(effects')) =
                  Delivered(clientWs[c]) * (1 + IF m.inputTranscription # "" THEN 1 ELSE 0)
      ]_vars

\* C38: no audio or text message from an upstream connection is relayed
\* downstream before the 'connected' status for that connection has been sent,
\* even if the provider sends content before, or in the same message as,
\* setup-complete.
C38_NoContentBeforeConnected ==
    [][\A c \in Conns :
         (\E i \in 1..Len(effects') :
             /\ effects'[i].op = "clientWs.send"
             /\ effects'[i].conn = c
             /\ effects'[i].type \in {"audio", "text"}) => connected[c] >= 1
      ]_vars

\* C39: the worklet partitions the microphone stream into consecutive blocks of
\* exactly bufferSize samples, however the samples are split across process
\* calls: after every call 0 <= bufferIndex < bufferSize, one chunk has been
\* posted for each bufferSize-th sample stored, block j holds the samples
\* (j - 1) * bufferSize + 1 .. j * bufferSize in stream order (so every sample
\* is in exactly one block), and the buffer holds the samples after the last
\* posted block.
C39_BlocksOfBufferSize ==
    /\ bufferIndex \in 0..(bufferSize - 1)
    /\ bufferIndex = streamPos % bufferSize
    /\ Len(posted) = streamPos \div bufferSize
    /\ \A j \in 1..Len(posted) :
            posted[j] = <<Run(0, (j - 1) * bufferSize + 1, j * bufferSize)>>
    /\ buffer = IF bufferIndex = 0 THEN <<>>
                ELSE <<Run(0, Len(posted) * bufferSize + 1, streamPos)>>

\* a call of 128 samples and a call of 4097 samples (in either order) were
\* processed: the first block was completed in the middle of a call
C39_Witness ==
    /\ streamPos = 128 + 4097
    /\ Len(posted) = 1
    /\ bufferIndex = 129
====
